---- MODULE Spec2Model ----
(***************************************************************************)
(* Model of the detection hook useAdvancedFaceDetection                    *)
(* (src/app/hooks/useFaceApiDetection.ts) as a state machine.              *)
(*                                                                         *)
(* React keeps the hook's state in a store (useState) and hands every      *)
(* render a snapshot of it: the callbacks created by a render (loadModels, *)
(* detectFaces, startDetection) close over that render's modelsLoaded and  *)
(* isModelLoading.  The model therefore keeps the store and the last       *)
(* rendered snapshot apart, and every running piece of code carries the    *)
(* values its closure captured.  JavaScript runs one macrotask at a time;  *)
(* a handler is interleaved with others only at an await on something that *)
(* really takes time (the model load, the neural detector).  The await on  *)
(* fallbackDetection resolves in the same macrotask, so a fallback         *)
(* iteration is one step.  The continuation of startDetection after        *)
(* `await loadModels()` is a microtask: it is a step of its own that runs  *)
(* before any other macrotask.                                             *)
(***************************************************************************)
EXTENDS Integers, Naturals, Sequences, FiniteSets, TLC

\* ---------------------------------------------------------------- bounds
MaxLoops == 2      \* detection loops (plus starts waiting to begin one) alive at once
MaxLoads == 1      \* model loads awaited by startDetection at once
MaxTime == 240     \* the clock stops advancing here (ms)

\* ------------------------------------------------------ program constants
ThrottleMs == 100
InitialLastUpdateTime == 0

\* ---------------------------------------------------------------- values
NoVideo == "none"
Videos == {"v1", "v2"}
NoError == "null"
LoadAdvisory == "Failed to load AI models. Using fallback detection."

\* animationFrameRef.current: undefined, or a requestAnimationFrame id.  Pending
\* callbacks differ only in the detectFaces closure they will run, so an id is
\* modelled by what it refers to: a pending callback whose closure captured
\* modelsLoaded = false (RefF) or true (RefT), or a callback that already ran
\* or was cancelled (StaleRef).
NoRef == "undefined"
StaleRef == "stale"
RefF == "pendingF"
RefT == "pendingT"
RefOf(cml) == IF cml THEN RefT ELSE RefF

Max(a, b) == IF a > b THEN a ELSE b
Min(a, b) == IF a < b THEN a ELSE b

\* A detection (interface FaceDetection, lines 4-14) is modelled by its box and
\* by its optional fields; `path` records which path produced it.
regionSize == 120
FrameWidth == 640
FrameHeight == 480

\* a push that does not clamp the size of the box
pushedFaceUnclamped(x, y, size, width, height) ==
    [path |-> "heuristic", x |-> Max(0, x - 20), y |-> Max(0, y - 20),
     width |-> size + 40, height |-> size + 50]

\* lines 204-212: the detection pushed for the window of size `size` at (x, y)
pushedFace(x, y, size, width, height) ==
    [path |-> "heuristic",
     x |-> Max(0, x - 20), y |-> Max(0, y - 20),
     width |-> Min(width - x, size + 40), height |-> Min(height - y, size + 50)]

HeurFace == pushedFace(0, 0, regionSize, FrameWidth, FrameHeight)
\* lists performImprovedFaceDetection can return (maxFaces = 1)
ScanLists == {<<>>, <<HeurFace>>}

\* the labels of a FaceExpressions object, in the order of its properties
Labels == <<"neutral", "happy", "sad", "angry", "fearful", "disgusted", "surprised">>

\* what face-api.js resolves with: one face, or two faces side by side.  The
\* expressions are the scores of the labels (in thousandths), in their order.
RawFace == [box |-> [x |-> 100, y |-> 60, width |-> 100, height |-> 100],
            score |-> 870,
            landmarks |-> "FaceLandmarks68",
            expressions |-> <<50, 900, 10, 10, 10, 10, 10>>]
RawFaceNear == [RawFace EXCEPT !.box.x = 180]
RawLists == {<<>>, <<RawFace>>, <<RawFace, RawFaceNear>>}

\* line 93: Object.entries(expressions), the pairs of label and score
entries(expressions) == [i \in DOMAIN expressions |-> <<Labels[i], expressions[i]>>]

RECURSIVE insertEntry(_, _), sortEntries(_)

\* line 93: sort(([, a], [, b]) => b - a), by descending score; the sort is
\* stable, so of equal scores the entry that came first stays first
insertEntry(sorted, e) ==
    IF sorted = <<>> THEN <<e>>
    ELSE IF Head(sorted)[2] >= e[2]
         THEN <<Head(sorted)>> \o insertEntry(Tail(sorted), e)
         ELSE <<e>> \o sorted
sortEntries(s) ==
    IF s = <<>> THEN <<>>
    ELSE insertEntry(sortEntries(SubSeq(s, 1, Len(s) - 1)), s[Len(s)])

\* a mapping that drops the optional fields
mapDetectionBare(d) ==
    [path |-> "neural",
     x |-> d.box.x, y |-> d.box.y, width |-> d.box.width, height |-> d.box.height]

\* a mapping that takes the first entry of the expressions as they come
mapDetectionUnsorted(d) ==
    LET emotionEntries == entries(d.expressions)
    IN [path |-> "neural",
        x |-> d.box.x, y |-> d.box.y, width |-> d.box.width, height |-> d.box.height,
        confidence |-> d.score,
        emotion |-> emotionEntries[1][1], emotionConfidence |-> emotionEntries[1][2],
        landmarks |-> d.landmarks, expressions |-> d.expressions]

\* lines 89-108: the FaceDetection made of one result of the neural detector
mapDetection(d) ==
    LET emotionEntries == sortEntries(entries(d.expressions))
    IN [path |-> "neural",
        x |-> d.box.x, y |-> d.box.y, width |-> d.box.width, height |-> d.box.height,
        confidence |-> d.score,
        emotion |-> emotionEntries[1][1], emotionConfidence |-> emotionEntries[1][2],
        landmarks |-> d.landmarks, expressions |-> d.expressions]

\* line 89: detections.map
mapDetections(detections) == [i \in DOMAIN detections |-> mapDetection(detections[i])]

\* the results mapped on their own: expressions whose scores are low (0.1) or
\* high (0.9), several labels sharing the highest score included
ExpressionMaps == [DOMAIN Labels -> {100, 900}]
RawFaces == [box : {RawFace.box}, score : {600, RawFace.score},
             landmarks : {RawFace.landmarks}, expressions : ExpressionMaps]
MapInputs ==
    {<<>>} \cup {<<f>> : f \in RawFaces}
           \cup {<<f, RawFaceNear>> : f \in RawFaces}
           \cup {<<RawFaceNear, f>> : f \in RawFaces}
NoMapped == [detections |-> <<>>, faces |-> <<>>, calls |-> 0]

NeuralFace == mapDetection(RawFace)
\* lists the neural detector's mapped result can be
NeuralLists == {mapDetections(r) : r \in RawLists}

\* what the environment makes of one call of fallbackDetection
NoOutcome == [kind |-> "degenerate", faces |-> <<>>]
FallbackOutcomes ==
    {NoOutcome, [kind |-> "throw", faces |-> <<>>]}
        \cup {[kind |-> "scan", faces |-> f] : f \in ScanLists}
\* what the environment makes of one awaited neural detection.  The detector
\* is handed the video element whatever its size (line 80); of a frame of
\* zero width or height (degenerate) it finds no face, or it raises.
NeuralOutcomes ==
    {[kind |-> "raise", faces |-> <<>>, degenerate |-> d] : d \in BOOLEAN}
        \cup {[kind |-> "ok", faces |-> f, degenerate |-> FALSE] : f \in NeuralLists}
        \cup {[kind |-> "ok", faces |-> <<>>, degenerate |-> TRUE]}

VARIABLES
    isDetecting, isModelLoading, modelsLoaded, detectedFaces, error,  \* useState store
    rendered,            \* the snapshot the last render (and its closures) saw
    lastUpdateTime, animationFrameRef, videoRef,                     \* useRef
    now,                 \* Date.now()
    loops,               \* how many rAF callbacks are pending (by closure) and how many
                         \* iterations await the neural detector
    mountLoad,           \* the load started by the mount effect is in flight
    startLoads,          \* loads in flight that a startDetection awaits
    resume,              \* startDetection continuations ready to run (microtasks)
    session,             \* history: "idle", "active" (start, no stop since), "stopped"
    failedInSession,     \* history: a load failed with modelsLoaded false since the last start
    lastWriteAt,         \* history: time of the latest write by a frame iteration
    earlyWrite,          \* history: an iteration wrote within ThrottleMs of the write before
    scen, scenVis,       \* history: progress through the throttling scenario
    loadSettled,         \* history: some model load has settled
    scan,                \* performImprovedFaceDetection: the frame it scans, the
                         \* window its loops are at and the faces it has pushed
    ana,                 \* analyzeRegionAdvanced: the window it was called for, its
                         \* tally of the samples and what it returned
    mapped,              \* lines 89-108: the results the neural detector resolved
                         \* with and the list made of them
    ev                   \* history: what the last step was

hookVars == <<isDetecting, isModelLoading, modelsLoaded, detectedFaces, error, rendered,
          lastUpdateTime, animationFrameRef, videoRef, now, loops, mountLoad,
          startLoads, resume, session, failedInSession, lastWriteAt, earlyWrite,
          scen, scenVis, loadSettled, ev>>

vars == <<hookVars, scan, ana, mapped>>

NoWrite == 0 - 1     \* no frame iteration has written yet
ScenarioTimes == <<0, 30, 60, 90, 130>>
ScenarioLen == Len(ScenarioTimes)

\* The instants at which the clock is read: 0, 30, 60, 90, 130 (the instants
\* of the throttling scenario), then every 110 ms.
StepAfter(t) == IF t < 90 THEN 30 ELSE IF t = 90 THEN 40 ELSE 110

Ev(op) == [op |-> op, arg |-> NoVideo]

\* ------------------------------------------------------------- helpers
NoLoops == [rafF |-> 0, rafT |-> 0, neural |-> 0]
Pending(lp) == lp.rafF + lp.rafT
Alive(lp) == lp.rafF + lp.rafT + lp.neural
Load == startLoads + resume + Alive(loops)

\* The part of the hook a frame iteration reads and writes, with what it did.
Hook == [loops |-> loops, ref |-> animationFrameRef, faces |-> detectedFaces,
         lut |-> lastUpdateTime, err |-> error, fellBack |-> FALSE, wrote |-> FALSE,
         produced |-> FALSE, published |-> FALSE, deg |-> FALSE]

\* lines 110-115 and 152-157: the throttled publish
ThrottledPublish(h, faces) ==
    IF now - h.lut > ThrottleMs
    THEN [h EXCEPT !.faces = faces, !.lut = now, !.wrote = TRUE,
                   !.produced = TRUE, !.published = TRUE]
    ELSE [h EXCEPT !.produced = TRUE]

\* lines 136-162: fallbackDetection
fallbackDetection(h, out) ==
    CASE out.kind = "degenerate" -> [h EXCEPT !.deg = TRUE]
      [] out.kind = "throw" -> [h EXCEPT !.faces = <<>>, !.wrote = TRUE]
      [] OTHER -> ThrottledPublish(h, out.faces)

\* requestAnimationFrame(detectFaces) for the closure that captured cml
Request(lp, cml) ==
    IF cml THEN [lp EXCEPT !.rafT = @ + 1] ELSE [lp EXCEPT !.rafF = @ + 1]

\* the callback runs (or is cancelled) and is pending no longer
Retire(lp, cml) ==
    IF cml THEN [lp EXCEPT !.rafT = @ - 1] ELSE [lp EXCEPT !.rafF = @ - 1]

\* cancelAnimationFrame(id)
Cancel(lp, id) ==
    IF id = RefF THEN Retire(lp, FALSE) ELSE IF id = RefT THEN Retire(lp, TRUE) ELSE lp

\* lines 129-132: continue the detection loop
Schedule(h, cml) ==
    IF videoRef' # NoVideo
    THEN [h EXCEPT !.loops = Request(@, cml), !.ref = RefOf(cml)]
    ELSE h

\* a detectFaces that a throwing fallbackDetection leaves before line 129
detectFacesDies(h, cml, out) ==
    IF videoRef' = NoVideo THEN h
    ELSE IF cml
    THEN [h EXCEPT !.loops.neural = @ + 1]
    ELSE IF out.kind = "throw"
    THEN fallbackDetection(h, out)
    ELSE Schedule([fallbackDetection(h, out) EXCEPT !.err = NoError], cml)

\* lines 67-133 up to the first real await: detectFaces of a closure that
\* captured modelsLoaded = cml
detectFaces(h, cml, out) ==
    IF videoRef' = NoVideo THEN h
    ELSE IF cml
    THEN [h EXCEPT !.loops.neural = @ + 1]
    ELSE Schedule([fallbackDetection(h, out) EXCEPT !.err = NoError], cml)

\* a detectFaces whose catch gives up the neural path for the loop
neuralSettledGivesUp(h, res, out) ==
    IF res.kind = "ok"
    THEN Schedule([ThrottledPublish([h EXCEPT !.deg = res.degenerate], res.faces)
                      EXCEPT !.err = NoError], TRUE)
    ELSE Schedule(fallbackDetection([h EXCEPT !.fellBack = TRUE], out), FALSE)

\* lines 87-127: the rest of detectFaces once the neural detector settles
neuralSettled(h, res, out) ==
    IF res.kind = "ok"
    THEN Schedule([ThrottledPublish([h EXCEPT !.deg = res.degenerate], res.faces)
                      EXCEPT !.err = NoError], TRUE)
    ELSE Schedule(fallbackDetection([h EXCEPT !.fellBack = TRUE], out), TRUE)

\* the history the frame iterations feed
Observe(h) ==
    /\ lastWriteAt' = IF h.wrote THEN now ELSE lastWriteAt
    /\ earlyWrite' = (earlyWrite \/ (h.wrote /\ lastWriteAt # NoWrite
                                             /\ now - lastWriteAt <= ThrottleMs))
    /\ IF h.produced /\ scen >= 0 /\ scen < ScenarioLen
       THEN IF now = ScenarioTimes[scen + 1]
            THEN /\ scen' = scen + 1
                 /\ scenVis' = IF h.published THEN scenVis \cup {scen + 1} ELSE scenVis
            ELSE /\ scen' = -1
                 /\ scenVis' = {}
       ELSE UNCHANGED <<scen, scenVis>>
    /\ UNCHANGED <<loadSettled, scan, ana, mapped>>

Commit(h) ==
    /\ loops' = h.loops
    /\ animationFrameRef' = h.ref
    /\ detectedFaces' = h.faces
    /\ lastUpdateTime' = h.lut
    /\ error' = h.err
    /\ Observe(h)

EvOf(op, h, arg) ==
    [op |-> IF h.fellBack THEN "raise"
            ELSE IF h.deg /\ op = "other" THEN "degenerate" ELSE op,
     arg |-> arg]
Quiet(h) == EvOf("other", h, NoVideo)

\* ------------------------------------------- the heuristic scanner
\* lines 165-220: performImprovedFaceDetection, one window at a time
step == 40
maxFaces == 1
scales10 == <<10, 8, 12>>          \* the scales 1.0, 0.8, 1.2, times ten
scaledRegionSize(si) == (regionSize * scales10[si]) \div 10
scaledStep(si) == (step * scales10[si]) \div 10

\* The maximum number of faces is the constant of line 176 in the hook.  The
\* scanner is also examined with the next larger maximum, which is the only
\* way for the overlap test of lines 189-201 to meet a face already pushed.
MaxFacesConfigs == {maxFaces, maxFaces + 1}

\* sizes of the frames scanned (width, height)
Frames == {[width |-> 0, height |-> 0], [width |-> 130, height |-> 130],
           [width |-> 200, height |-> 170], [width |-> 320, height |-> 240]}

\* what analyzeRegionAdvanced says of a window, as far as line 187 reads it:
\* isFaceCandidate, and whether confidence > 0.6
Analyses == [isFaceCandidate : BOOLEAN, confident : BOOLEAN]

\* no scan has begun, or the last one has returned
NoWindow == [si |-> 0, x |-> 0, y |-> 0]
ScanIdle == [pc |-> "done", width |-> 0, height |-> 0, max |-> maxFaces,
             si |-> 0, y |-> 0, x |-> 0, faces |-> <<>>, analysed |-> 0,
             taken |-> <<>>,         \* history: the windows the faces were pushed for
             dropped |-> NoWindow,   \* history: the last window that passed the test
                                     \* of line 187 and was found to overlap
             firstPass |-> NoWindow] \* history: the first window whose analysis
                                     \* passed the test of line 187
ScanDone(sc) == [sc EXCEPT !.pc = "done", !.si = 0, !.y = 0, !.x = 0]

\* an x loop that goes on after maxFaces faces
xLoopGoesOnFull(sc, si, x) == x < sc.width - scaledRegionSize(si)

\* line 184: the condition of the x loop
xLoopGoesOn(sc, si, x) ==
    x < sc.width - scaledRegionSize(si) /\ Len(sc.faces) < sc.max

\* line 183: the condition of the y loop
yLoopGoesOn(sc, si, y) ==
    y < sc.height - scaledRegionSize(si) /\ Len(sc.faces) < sc.max

RECURSIVE AtX(_, _, _, _), AtY(_, _, _), AtScale(_, _)

\* the x loop tests its condition at x: where the scan is next
AtX(sc, si, y, x) ==
    IF xLoopGoesOn(sc, si, x)
    THEN [sc EXCEPT !.pc = "window", !.si = si, !.y = y, !.x = x]
    ELSE AtY(sc, si, y + scaledStep(si))

\* the y loop tests its condition at y
AtY(sc, si, y) ==
    IF yLoopGoesOn(sc, si, y)
    THEN AtX(sc, si, y, 0)
    ELSE AtScale(sc, si + 1)

\* line 179: the loop over the scales
AtScale(sc, si) ==
    IF si > Len(scales10) THEN ScanDone(sc) ELSE AtY(sc, si, 0)

\* lines 189-201: the window is too close to a face already pushed (the
\* distance of the centres is compared on doubled coordinates, squared)
overlaps(faces, x, y, size) ==
    \E i \in DOMAIN faces :
        LET dx == (2 * x + size) - (2 * faces[i].x + faces[i].width)
            dy == (2 * y + size) - (2 * faces[i].y + faces[i].height)
        IN dx * dx + dy * dy < (2 * size) * (2 * size)

\* a loop body that pushes every window that passes the test of line 187
windowBodyAll(sc, a) ==
    LET size == scaledRegionSize(sc.si)
        here == [si |-> sc.si, x |-> sc.x, y |-> sc.y]
        passes == a.isFaceCandidate /\ a.confident
        accept == passes
        sc1 == [sc EXCEPT !.analysed = @ + 1,
                          !.faces = IF accept
                                    THEN Append(@, pushedFace(sc.x, sc.y, size,
                                                              sc.width, sc.height))
                                    ELSE @,
                          !.taken = IF accept THEN Append(@, here) ELSE @,
                          !.dropped = IF passes /\ ~accept THEN here ELSE @]
    IN AtX(sc1, sc.si, sc.y, sc.x + scaledStep(sc.si))

\* a loop body that takes every candidate, whatever its confidence
windowBodyAnyCandidate(sc, a) ==
    LET size == scaledRegionSize(sc.si)
        here == [si |-> sc.si, x |-> sc.x, y |-> sc.y]
        passes == a.isFaceCandidate
        accept == passes /\ ~overlaps(sc.faces, sc.x, sc.y, size)
        sc1 == [sc EXCEPT !.analysed = @ + 1,
                          !.faces = IF accept
                                    THEN Append(@, pushedFace(sc.x, sc.y, size,
                                                              sc.width, sc.height))
                                    ELSE @,
                          !.taken = IF accept THEN Append(@, here) ELSE @,
                          !.dropped = IF passes /\ ~accept THEN here ELSE @]
    IN AtX(sc1, sc.si, sc.y, sc.x + scaledStep(sc.si))

\* lines 185-214: the body of the loops for the window the scan is at, then
\* the x loop's increment
windowBody(sc, a) ==
    LET size == scaledRegionSize(sc.si)
        here == [si |-> sc.si, x |-> sc.x, y |-> sc.y]
        passes == a.isFaceCandidate /\ a.confident
        accept == passes /\ ~overlaps(sc.faces, sc.x, sc.y, size)
        sc1 == [sc EXCEPT !.analysed = @ + 1,
                          !.faces = IF accept
                                    THEN Append(@, pushedFace(sc.x, sc.y, size,
                                                              sc.width, sc.height))
                                    ELSE @,
                          !.taken = IF accept THEN Append(@, here) ELSE @,
                          !.dropped = IF passes /\ ~accept THEN here ELSE @]
    IN AtX(sc1, sc.si, sc.y, sc.x + scaledStep(sc.si))

\* --------------------------------------------------- the region analyzer
\* lines 223-346.  The frame's pixel data is a function of the position: even
\* columns carry, in each run of ten, `skin` columns of the colour Skin and
\* then the colour `bg`; odd columns carry the colour `odd`.  The samples of a
\* window that starts at an even column are pixels of even columns, and the
\* pixels one up and one to the left of them are pixels of odd columns.
Skin == [r |-> 210, g |-> 150, b |-> 120]
Gray == [r |-> 130, g |-> 130, b |-> 130]
Dark == [r |-> 30, g |-> 30, b |-> 30]
White == [r |-> 240, g |-> 240, b |-> 240]
Blue == [r |-> 60, g |-> 100, b |-> 200]
Images == [skin : 0..10, bg : {Gray, Dark, White, Blue}, odd : {Gray, White}]

\* data[(y * width + x) * 4 ..]: the pixel at (x, y)
px(img, x, y) ==
    IF x % 2 = 1 THEN img.odd
    ELSE IF (x \div 2) % 10 < img.skin THEN Skin ELSE img.bg

Abs(n) == IF n < 0 THEN 0 - n ELSE n

\* a classification that asks for all three methods
isAdvancedSkinToneAll(r, g, b) ==
    LET rgb == r > 95 /\ g > 40 /\ b > 20 /\ r > g /\ r > b /\ Abs(r - g) > 15
        ycbcr == r > 80 /\ g > 50 /\ b > 30 /\ r >= g /\ g >= b
        hsv == r > 60 /\ g > 40 /\ b > 25 /\ (r - Min(g, b)) > 15
        count == (IF rgb THEN 1 ELSE 0) + (IF ycbcr THEN 1 ELSE 0) + (IF hsv THEN 1 ELSE 0)
    IN count >= 3

\* lines 311-323: at least two of the three methods say skin
isAdvancedSkinTone(r, g, b) ==
    LET rgb == r > 95 /\ g > 40 /\ b > 20 /\ r > g /\ r > b /\ Abs(r - g) > 15
        ycbcr == r > 80 /\ g > 50 /\ b > 30 /\ r >= g /\ g >= b
        hsv == r > 60 /\ g > 40 /\ b > 25 /\ (r - Min(g, b)) > 15
        count == (IF rgb THEN 1 ELSE 0) + (IF ycbcr THEN 1 ELSE 0) + (IF hsv THEN 1 ELSE 0)
    IN count >= 2

\* an edge test against the sample before, one stride up and to the left
prevRSampled(img, x, y) == px(img, x - 2, y - 2).r

\* lines 262-263: the R of the pixel one up and one to the left
prevR(img, x, y) == px(img, x - 1, y - 1).r

NoTally == [totalPixels |-> 0, skinPixels |-> 0, edgePixels |-> 0,
            sumR |-> 0, sumG |-> 0, sumB |-> 0,
            outside |-> FALSE]   \* history: a read used an index outside the buffer

\* line 245: the index of the R of the pixel at (x, y) in the frame's data
pixelIndex(x, y, width) == (y * width + x) * 4

\* the indices of data, an array of width * height * 4 bytes
InBuffer(i, width, height) == i >= 0 /\ i < width * height * 4

\* a loop body that runs the edge test for the first row and column too
sampleEdgeAll(t, img, startX, startY, dx, dy, width, height) ==
    LET x == startX + dx
        y == startY + dy
        p == px(img, x, y)
        reads == {pixelIndex(x, y, width) + k : k \in 0..2}
                     \cup {pixelIndex(x - 1, y - 1, width)}
    IN IF x >= width \/ y >= height THEN t
       ELSE [t EXCEPT !.totalPixels = @ + 1,
                      !.sumR = @ + p.r, !.sumG = @ + p.g, !.sumB = @ + p.b,
                      !.skinPixels = IF isAdvancedSkinTone(p.r, p.g, p.b) THEN @ + 1 ELSE @,
                      !.edgePixels = IF Abs(p.r - prevR(img, x, y)) > 30
                                     THEN @ + 1 ELSE @,
                      !.outside = @ \/ \E i \in reads : ~InBuffer(i, width, height)]

\* lines 240-267: the body of the sampling loops for the offset (dx, dy); it
\* reads data at pixelIndex, pixelIndex + 1, pixelIndex + 2 (lines 246-248)
\* and, for the edge test, at the index of the pixel (x - 1, y - 1) (line 262)
sample(t, img, startX, startY, dx, dy, width, height) ==
    LET x == startX + dx
        y == startY + dy
        p == px(img, x, y)
        reads == {pixelIndex(x, y, width) + k : k \in 0..2}
                     \cup (IF dx > 0 /\ dy > 0
                           THEN {pixelIndex(x - 1, y - 1, width)} ELSE {})
    IN IF x >= width \/ y >= height THEN t
       ELSE [t EXCEPT !.totalPixels = @ + 1,
                      !.sumR = @ + p.r, !.sumG = @ + p.g, !.sumB = @ + p.b,
                      !.skinPixels = IF isAdvancedSkinTone(p.r, p.g, p.b) THEN @ + 1 ELSE @,
                      !.edgePixels = IF dx > 0 /\ dy > 0 /\ Abs(p.r - prevR(img, x, y)) > 30
                                     THEN @ + 1 ELSE @,
                      !.outside = @ \/ \E i \in reads : ~InBuffer(i, width, height)]

RECURSIVE sampleRow(_, _, _, _), sampleRows(_, _, _)

\* line 239: the loop over dx, for the window w = [img, startX, startY, size,
\* width, height].  The counters are local variables the body assigns: each
\* step reads the tally it was given, so the tally is computed sample by sample.
sampleRow(t, w, dx, dy) ==
    IF dx < w.size /\ t.totalPixels >= 0
    THEN sampleRow(sample(t, w.img, w.startX, w.startY, dx, dy, w.width, w.height),
                   w, dx + 2, dy)
    ELSE t

\* line 238: the loop over dy
sampleRows(t, w, dy) ==
    IF dy < w.size /\ t.totalPixels >= 0
    THEN sampleRows(sampleRow(t, w, 0, dy), w, dy + 2)
    ELSE t

\* an estimate that tries surprised before happy
estimateAdvancedEmotionSurprisedFirst(t) ==
    LET n == t.totalPixels
        sum == t.sumR + t.sumG + t.sumB
        spread == Max(t.sumR, Max(t.sumG, t.sumB)) - Min(t.sumR, Min(t.sumG, t.sumB))
    IN IF 10 * spread > 765 * n /\ sum > 300 * n
       THEN [name |-> "surprised",
             confidence |-> 600 + Min(200, (200 * spread) \div (51 * n))]
       ELSE IF sum > 390 * n /\ 10 * (t.sumR - t.sumB) > 255 * n
       THEN [name |-> "happy",
             confidence |-> 700 + Min(200, (200 * (t.sumR - t.sumB)) \div (51 * n))]
       ELSE IF sum < 270 * n /\ 100 * t.edgePixels > 15 * n
       THEN [name |-> "focused",
             confidence |-> 600 + Min(300, (1000 * t.edgePixels) \div n)]
       ELSE [name |-> "neutral",
             confidence |-> 500 + Min(300, (5 * sum) \div (3 * n))]

\* an estimate whose confidence terms are not capped
estimateAdvancedEmotionUncapped(t) ==
    LET n == t.totalPixels
        sum == t.sumR + t.sumG + t.sumB
        spread == Max(t.sumR, Max(t.sumG, t.sumB)) - Min(t.sumR, Min(t.sumG, t.sumB))
    IN IF sum > 390 * n /\ 10 * (t.sumR - t.sumB) > 255 * n
       THEN [name |-> "happy",
             confidence |-> 700 + (200 * (t.sumR - t.sumB)) \div (51 * n)]
       ELSE IF sum < 270 * n /\ 100 * t.edgePixels > 15 * n
       THEN [name |-> "focused",
             confidence |-> 600 + (1000 * t.edgePixels) \div n]
       ELSE IF 10 * spread > 765 * n /\ sum > 300 * n
       THEN [name |-> "surprised",
             confidence |-> 600 + (200 * spread) \div (51 * n)]
       ELSE [name |-> "neutral",
             confidence |-> 500 + (5 * sum) \div (3 * n)]

\* lines 326-346: estimateAdvancedEmotion of the averages, which are the sums
\* of t over totalPixels; brightness is (sumR + sumG + sumB) / (3 totalPixels).
\* Comparisons are cross-multiplied; a confidence is in thousandths, rounded
\* down, its fraction reduced (1000 / 255 = 200 / 51, 1000 / 600 = 5 / 3).
estimateAdvancedEmotion(t) ==
    LET n == t.totalPixels
        sum == t.sumR + t.sumG + t.sumB
        spread == Max(t.sumR, Max(t.sumG, t.sumB)) - Min(t.sumR, Min(t.sumG, t.sumB))
    IN IF sum > 390 * n /\ 10 * (t.sumR - t.sumB) > 255 * n
       THEN [name |-> "happy",
             confidence |-> 700 + Min(200, (200 * (t.sumR - t.sumB)) \div (51 * n))]
       ELSE IF sum < 270 * n /\ 100 * t.edgePixels > 15 * n
       THEN [name |-> "focused",
             confidence |-> 600 + Min(300, (1000 * t.edgePixels) \div n)]
       ELSE IF 10 * spread > 765 * n /\ sum > 300 * n
       THEN [name |-> "surprised",
             confidence |-> 600 + Min(200, (200 * spread) \div (51 * n))]
       ELSE [name |-> "neutral",
             confidence |-> 500 + Min(300, (5 * sum) \div (3 * n))]

\* an acceptance rule that takes a skin ratio of exactly 0.3
isFaceCandidateFrom(t) ==
    LET n == t.totalPixels
        sum == t.sumR + t.sumG + t.sumB
    IN /\ 10 * t.skinPixels >= 3 * n /\ 10 * t.skinPixels < 8 * n
       /\ sum > 180 * n /\ sum < 600 * n
       /\ 10 * t.edgePixels > n
       /\ t.skinPixels > 80

\* an acceptance rule that asks for a skin ratio above 0.4
isFaceCandidateAbove40(t) ==
    LET n == t.totalPixels
        sum == t.sumR + t.sumG + t.sumB
    IN /\ 10 * t.skinPixels > 4 * n /\ 10 * t.skinPixels < 8 * n
       /\ sum > 180 * n /\ sum < 600 * n
       /\ 10 * t.edgePixels > n
       /\ t.skinPixels > 80

\* lines 283-289: isFaceCandidate
isFaceCandidate(t) ==
    LET n == t.totalPixels
        sum == t.sumR + t.sumG + t.sumB
    IN /\ 10 * t.skinPixels > 3 * n /\ 10 * t.skinPixels < 8 * n
       /\ sum > 180 * n /\ sum < 600 * n
       /\ 10 * t.edgePixels > n
       /\ t.skinPixels > 80

\* an analysis whose confidence is not capped at 0.95
analysisUncapped(t) ==
    IF t.totalPixels = 0
    THEN [isFaceCandidate |-> FALSE, confidence |-> 0, confident |-> FALSE,
          emotion |-> "neutral", emotionConfidence |-> 0, divided |-> FALSE]
    ELSE LET n == t.totalPixels
             sum == t.sumR + t.sumG + t.sumB
             num == 120 * (4 * t.skinPixels + 3 * t.edgePixels) + Min(sum, 360 * n)
             den == 1200 * n
             emotion == estimateAdvancedEmotion(t)
         IN [isFaceCandidate |-> isFaceCandidate(t),
             confidence |-> (5 * num) \div (6 * n),
             confident |-> 5 * num > 3 * den,
             emotion |-> emotion.name,
             emotionConfidence |-> emotion.confidence,
             divided |-> TRUE]

\* an analysis without the return of lines 270-272: the divisions by zero
\* give NaN (here -1), every comparison with NaN is false and Math.min
\* returns NaN
analysisNoGuard(t) ==
    IF t.totalPixels = 0
    THEN [isFaceCandidate |-> FALSE, confidence |-> 0 - 1, confident |-> FALSE,
          emotion |-> "neutral", emotionConfidence |-> 0 - 1, divided |-> TRUE]
    ELSE LET n == t.totalPixels
             sum == t.sumR + t.sumG + t.sumB
             num == 120 * (4 * t.skinPixels + 3 * t.edgePixels) + Min(sum, 360 * n)
             den == 1200 * n
             emotion == estimateAdvancedEmotion(t)
         IN [isFaceCandidate |-> isFaceCandidate(t),
             confidence |-> Min(950, (5 * num) \div (6 * n)),
             confident |-> 5 * num > 3 * den,
             emotion |-> emotion.name,
             emotionConfidence |-> emotion.confidence,
             divided |-> TRUE]

\* lines 270-307: what analyzeRegionAdvanced returns for the tally t.  The
\* confidence of lines 295-299 is num / den before the cap at 0.95.  `divided`
\* records that lines 274-280 ran, which divide by totalPixels.
analysis(t) ==
    IF t.totalPixels = 0
    THEN [isFaceCandidate |-> FALSE, confidence |-> 0, confident |-> FALSE,
          emotion |-> "neutral", emotionConfidence |-> 0, divided |-> FALSE]
    ELSE LET n == t.totalPixels
             sum == t.sumR + t.sumG + t.sumB
             num == 120 * (4 * t.skinPixels + 3 * t.edgePixels) + Min(sum, 360 * n)
             den == 1200 * n
             emotion == estimateAdvancedEmotion(t)
         IN [isFaceCandidate |-> isFaceCandidate(t),
             confidence |-> Min(950, (5 * num) \div (6 * n)),
             confident |-> 5 * num > 3 * den,
             emotion |-> emotion.name,
             emotionConfidence |-> emotion.confidence,
             divided |-> TRUE]

\* lines 223-308: analyzeRegionAdvanced(data, startX, startY, size, width, height)
analyzeRegionAdvanced(w) == analysis(sampleRows(NoTally, w, 0))

\* the windows analysed.  Whole windows of the camera's frame (640 x 480) at
\* the three scales, of a uniform frame, of a frame half skin and of a frame
\* all skin between gray columns, the first window of each scale and the last
\* window of the scan (at 480, 288 of scale 1.2); and windows
\* at scale 0.8 that a frame of 80 x 14 cuts short: 7 rows of 40 columns of
\* samples from column 0, of 20 columns from column 40, none from column 80.
FullWindows ==
    [img : [skin : {0, 5, 10}, bg : {Gray}, odd : {Gray}], startX : {0}, startY : {0},
     size : {scaledRegionSize(si) : si \in DOMAIN scales10},
     width : {FrameWidth}, height : {FrameHeight}]
LastWindows ==
    [img : [skin : {0, 5, 10}, bg : {Gray}, odd : {Gray}],
     startX : {FrameWidth - 160}, startY : {FrameHeight - 192},
     size : {scaledRegionSize(3)}, width : {FrameWidth}, height : {FrameHeight}]
ClippedWindows ==
    [img : Images, startX : {0, 40, 80}, startY : {0}, size : {scaledRegionSize(2)},
     width : {80}, height : {14}]
\* windows of a single sample, of a frame of one colour around the thresholds
\* of the skin methods
ProbeColours ==
    [r : {60, 61, 80, 81, 95, 96, 120}, g : {40, 41, 50, 51, 80, 81, 96, 105},
     b : {20, 21, 25, 26, 30, 31, 60, 96}]
ProbeWindows ==
    [img : [skin : {0}, bg : ProbeColours, odd : {Gray}], startX : {0}, startY : {0},
     size : {2}, width : {FrameWidth}, height : {FrameHeight}]
Windows == FullWindows \cup LastWindows \cup ClippedWindows \cup ProbeWindows
NoAnalysis == [w |-> [img |-> [skin |-> 0, bg |-> Gray, odd |-> Gray], startX |-> 0,
                      startY |-> 0, size |-> 0, width |-> 0, height |-> 0],
               t |-> NoTally, a |-> analysis(NoTally)]

\* ---------------------------------------------------------------- Init
\* The state after the first render and its effects: the mount effect
\* (lines 389-392) has called loadModels, which set isModelLoading and
\* started a load; the restart effect (lines 394-400) found nothing to do.
InitAt(t0) ==
    /\ isDetecting = FALSE
    /\ isModelLoading = TRUE
    /\ modelsLoaded = FALSE
    /\ detectedFaces = <<>>
    /\ error = NoError
    /\ rendered = [ml |-> FALSE, iml |-> FALSE, det |-> FALSE]
    /\ lastUpdateTime = InitialLastUpdateTime
    /\ animationFrameRef = NoRef
    /\ videoRef = NoVideo
    /\ now = t0
    /\ loops = NoLoops
    /\ mountLoad = TRUE
    /\ startLoads = 0
    /\ resume = 0
    /\ session = "idle"
    /\ failedInSession = FALSE
    /\ lastWriteAt = NoWrite
    /\ earlyWrite = FALSE
    /\ scen = IF t0 = ScenarioTimes[1] THEN 0 ELSE -1
    /\ scenVis = {}
    /\ loadSettled = FALSE
    /\ scan = ScanIdle
    /\ ana = NoAnalysis
    /\ mapped = NoMapped
    /\ ev = Ev("other")

\* the hook is constructed at a wall-clock instant, later than ThrottleMs
\* after the epoch Date.now() counts from
Init == InitAt(130)

\* ------------------------------------------------------------- actions
\* Date.now() advances
Tick ==
    /\ resume = 0
    /\ now + StepAfter(now) <= MaxTime
    /\ now' = now + StepAfter(now)
    /\ ev' = Ev("other")
    /\ UNCHANGED <<isDetecting, isModelLoading, modelsLoaded, detectedFaces, error,
                   rendered, lastUpdateTime, animationFrameRef, videoRef, loops,
                   mountLoad, startLoads, resume, session, failedInSession,
                   lastWriteAt, earlyWrite, scen, scenVis, loadSettled, scan, ana, mapped>>

\* lines 348-379: startDetection(video) of a closure that captured c.ml and
\* c.iml.  Callers hold either the callback of the first render (startCamera,
\* src/unnamed/part_000 lines 49-155, never re-created) or the one of the
\* last render (toggleFaceDetection, lines 408-421).  Nothing in the try
\* block throws, so the catch at lines 374-378 is never entered.
StartClosures == {[ml |-> FALSE, iml |-> FALSE], [ml |-> rendered.ml, iml |-> rendered.iml]}

StartOp == IF session = "active" THEN "restart" ELSE "start"

\* a startDetection that leaves the scheduled iteration alone
startDetectionKeep(c, video, out) ==
    LET h0 == [Hook EXCEPT !.ref = NoRef, !.err = NoError]
    IN
    /\ resume = 0
    /\ Load < MaxLoops
    /\ videoRef' = video
    /\ isDetecting' = TRUE
    /\ session' = "active"
    /\ failedInSession' = FALSE
    /\ UNCHANGED <<modelsLoaded, rendered, now, mountLoad, resume>>
    /\ IF ~c.ml /\ ~c.iml
       THEN /\ startLoads < MaxLoads
            /\ out = NoOutcome
            /\ isModelLoading' = TRUE
            /\ startLoads' = startLoads + 1
            /\ Commit(h0)
            /\ ev' = EvOf(StartOp, h0, video)
       ELSE LET h1 == detectFaces(h0, c.ml, out)
            IN /\ (c.ml => out = NoOutcome)
               /\ UNCHANGED <<isModelLoading, startLoads>>
               /\ Commit(h1)
               /\ ev' = EvOf(StartOp, h1, video)

\* a startDetection that begins every session with the models not loaded
startDetectionResets(c, video, out) ==
    LET h0 == [Hook EXCEPT !.loops = IF animationFrameRef # NoRef
                                     THEN Cancel(loops, animationFrameRef) ELSE loops,
                           !.ref = NoRef, !.err = NoError]
    IN
    /\ resume = 0
    /\ Load < MaxLoops
    /\ videoRef' = video
    /\ isDetecting' = TRUE
    /\ session' = "active"
    /\ failedInSession' = FALSE
    /\ modelsLoaded' = FALSE
    /\ UNCHANGED <<rendered, now, mountLoad, resume>>
    /\ IF ~c.ml /\ ~c.iml
       THEN /\ startLoads < MaxLoads
            /\ out = NoOutcome
            /\ isModelLoading' = TRUE
            /\ startLoads' = startLoads + 1
            /\ Commit(h0)
            /\ ev' = EvOf(StartOp, h0, video)
       ELSE LET h1 == detectFaces(h0, c.ml, out)
            IN /\ (c.ml => out = NoOutcome)
               /\ UNCHANGED <<isModelLoading, startLoads>>
               /\ Commit(h1)
               /\ ev' = EvOf(StartOp, h1, video)

startDetection(c, video, out) ==
    LET h0 == [Hook EXCEPT !.loops = IF animationFrameRef # NoRef
                                     THEN Cancel(loops, animationFrameRef) ELSE loops,
                           !.ref = NoRef, !.err = NoError]
    IN
    /\ resume = 0
    /\ Load < MaxLoops
    /\ videoRef' = video
    /\ isDetecting' = TRUE
    /\ session' = "active"
    /\ failedInSession' = FALSE
    /\ UNCHANGED <<modelsLoaded, rendered, now, mountLoad, resume>>
    /\ IF ~c.ml /\ ~c.iml
       THEN \* await loadModels(): lines 38-41 run now, the rest when the load settles
            /\ startLoads < MaxLoads
            /\ out = NoOutcome
            /\ isModelLoading' = TRUE
            /\ startLoads' = startLoads + 1
            /\ Commit(h0)
            /\ ev' = EvOf(StartOp, h0, video)
       ELSE LET h1 == detectFaces(h0, c.ml, out)
            IN /\ (c.ml => out = NoOutcome)
               /\ UNCHANGED <<isModelLoading, startLoads>>
               /\ Commit(h1)
               /\ ev' = EvOf(StartOp, h1, video)

Start == \E c \in StartClosures, video \in Videos, out \in FallbackOutcomes :
            startDetection(c, video, out)

\* lines 366-373: startDetection resumes after `await loadModels()`; its
\* detectFaces is the one of its own render, which captured modelsLoaded = false
StartResume ==
    \E out \in FallbackOutcomes :
        LET h1 == detectFaces(Hook, FALSE, out)
        IN /\ resume > 0
           /\ resume' = resume - 1
           /\ UNCHANGED videoRef
           /\ Commit(h1)
           /\ ev' = Quiet(h1)
           /\ UNCHANGED <<isDetecting, isModelLoading, modelsLoaded, rendered, now,
                          mountLoad, startLoads, session, failedInSession>>

\* a stop() that follows a stop() directly is told apart in the history
StopOp == IF ev.op \in {"stop", "stopAgain"} THEN "stopAgain" ELSE "stop"

\* a stopDetection that leaves the published list in place
stopDetectionKeepsList ==
    /\ resume = 0
    /\ loops' = IF animationFrameRef # NoRef THEN Cancel(loops, animationFrameRef) ELSE loops
    /\ animationFrameRef' = IF animationFrameRef = NoRef THEN NoRef ELSE StaleRef
    /\ isDetecting' = FALSE
    /\ detectedFaces' = detectedFaces
    /\ session' = "stopped"
    /\ ev' = Ev(StopOp)
    /\ UNCHANGED <<isModelLoading, modelsLoaded, error, rendered, lastUpdateTime,
                   videoRef, now, mountLoad, startLoads, resume, failedInSession,
                   lastWriteAt, earlyWrite, scen, scenVis, loadSettled, scan, ana, mapped>>

\* a stopDetection that flips isDetecting instead of clearing it
stopDetectionToggles ==
    /\ resume = 0
    /\ loops' = IF animationFrameRef # NoRef THEN Cancel(loops, animationFrameRef) ELSE loops
    /\ animationFrameRef' = IF animationFrameRef = NoRef THEN NoRef ELSE StaleRef
    /\ isDetecting' = ~isDetecting
    /\ detectedFaces' = <<>>
    /\ session' = "stopped"
    /\ ev' = Ev(StopOp)
    /\ UNCHANGED <<isModelLoading, modelsLoaded, error, rendered, lastUpdateTime,
                   videoRef, now, mountLoad, startLoads, resume, failedInSession,
                   lastWriteAt, earlyWrite, scen, scenVis, loadSettled, scan, ana, mapped>>

\* lines 381-387: stopDetection
stopDetection ==
    /\ resume = 0
    /\ loops' = IF animationFrameRef # NoRef THEN Cancel(loops, animationFrameRef) ELSE loops
    /\ animationFrameRef' = IF animationFrameRef = NoRef THEN NoRef ELSE StaleRef
    /\ isDetecting' = FALSE
    /\ detectedFaces' = <<>>
    /\ session' = "stopped"
    /\ ev' = Ev(StopOp)
    /\ UNCHANGED <<isModelLoading, modelsLoaded, error, rendered, lastUpdateTime,
                   videoRef, now, mountLoad, startLoads, resume, failedInSession,
                   lastWriteAt, earlyWrite, scen, scenVis, loadSettled, scan, ana, mapped>>

\* a loadModels that marks the models loaded in its finally block
loadModelsSettledAlways(ok) ==
    /\ modelsLoaded' = TRUE
    /\ error' = IF ok THEN NoError ELSE LoadAdvisory
    /\ isModelLoading' = FALSE
    /\ failedInSession' = (failedInSession \/ (~ok /\ ~modelsLoaded /\ session = "active"))
    /\ loadSettled' = TRUE
    /\ UNCHANGED <<scan, ana, mapped>>
    /\ ev' = Ev(IF ok THEN "other" ELSE "loadFailed")

\* a loadModels that records the outcome of the latest load only
loadModelsSettledLatest(ok) ==
    /\ modelsLoaded' = ok
    /\ error' = IF ok THEN NoError ELSE LoadAdvisory
    /\ isModelLoading' = FALSE
    /\ failedInSession' = (failedInSession \/ (~ok /\ ~modelsLoaded /\ session = "active"))
    /\ loadSettled' = TRUE
    /\ UNCHANGED <<scan, ana, mapped>>
    /\ ev' = Ev(IF ok THEN "other" ELSE "loadFailed")

\* lines 43-63: loadModels once its Promise.all settles (ok) or rejects
loadModelsSettled(ok) ==
    /\ modelsLoaded' = (ok \/ modelsLoaded)
    /\ error' = IF ok THEN NoError ELSE LoadAdvisory
    /\ isModelLoading' = FALSE
    /\ failedInSession' = (failedInSession \/ (~ok /\ ~modelsLoaded /\ session = "active"))
    /\ loadSettled' = TRUE
    /\ UNCHANGED <<scan, ana, mapped>>
    /\ ev' = Ev(IF ok THEN "other" ELSE "loadFailed")

\* the load of the mount effect (lines 389-392) settles
MountLoadDone ==
    \E ok \in BOOLEAN :
        /\ resume = 0
        /\ mountLoad
        /\ mountLoad' = FALSE
        /\ loadModelsSettled(ok)
        /\ UNCHANGED <<isDetecting, detectedFaces, rendered, lastUpdateTime,
                       animationFrameRef, videoRef, now, loops, startLoads, resume,
                       session, lastWriteAt, earlyWrite, scen, scenVis>>

\* a load that a startDetection awaits (line 365) settles
StartLoadDone ==
    \E ok \in BOOLEAN :
        /\ resume = 0
        /\ startLoads > 0
        /\ startLoads' = startLoads - 1
        /\ resume' = resume + 1
        /\ loadModelsSettled(ok)
        /\ UNCHANGED <<isDetecting, detectedFaces, rendered, lastUpdateTime,
                       animationFrameRef, videoRef, now, loops, mountLoad,
                       session, lastWriteAt, earlyWrite, scen, scenVis>>

\* requestAnimationFrame runs the detectFaces it was given (line 131): the
\* callback animationFrameRef refers to (refd) or another pending one
RafFire ==
    \E cml \in BOOLEAN, refd \in BOOLEAN, out \in FallbackOutcomes :
        LET n == IF cml THEN loops.rafT ELSE loops.rafF
            others == IF animationFrameRef = RefOf(cml) THEN n - 1 ELSE n
            h0 == [Hook EXCEPT !.loops = Retire(@, cml),
                               !.ref = IF refd THEN StaleRef ELSE @]
            h1 == detectFaces(h0, cml, out)
        IN /\ resume = 0
           /\ IF refd THEN animationFrameRef = RefOf(cml) ELSE others > 0
           /\ (cml => out = NoOutcome)
           /\ UNCHANGED videoRef
           /\ Commit(h1)
           /\ ev' = Quiet(h1)
           /\ UNCHANGED <<isDetecting, isModelLoading, modelsLoaded, rendered, now,
                          mountLoad, startLoads, resume, session, failedInSession>>

\* the awaited neural detection (lines 79-85) settles: with a result, or it raises
NeuralDone ==
    \E res \in NeuralOutcomes, out \in FallbackOutcomes :
        LET h0 == [Hook EXCEPT !.loops.neural = @ - 1]
            h1 == neuralSettled(h0, res, out)
        IN /\ resume = 0
           /\ loops.neural > 0
           /\ (res.kind = "ok" => out = NoOutcome)
           /\ (res.degenerate => out = NoOutcome)   \* the frame is still zero-sized
           /\ UNCHANGED videoRef
           /\ Commit(h1)
           /\ ev' = Quiet(h1)
           /\ UNCHANGED <<isDetecting, isModelLoading, modelsLoaded, rendered, now,
                          mountLoad, startLoads, resume, session, failedInSession>>

\* React renders the component with the current store and runs the effects
\* whose dependencies changed: lines 389-392 (loadModels changed: the new
\* closure captured modelsLoaded = true and returns at line 38) and 394-400
Render ==
    LET snap == [ml |-> modelsLoaded, iml |-> isModelLoading, det |-> isDetecting]
        restart == /\ (snap.ml # rendered.ml \/ snap.det # rendered.det)
                   /\ snap.ml /\ snap.det
                   /\ videoRef # NoVideo
                   /\ animationFrameRef = NoRef
        h1 == IF restart THEN detectFaces(Hook, snap.ml, NoOutcome) ELSE Hook
    IN /\ resume = 0
       /\ snap # rendered
       /\ restart => Load < MaxLoops
       /\ rendered' = snap
       /\ UNCHANGED videoRef
       /\ Commit(h1)
       /\ ev' = Quiet(h1)
       /\ UNCHANGED <<isDetecting, isModelLoading, modelsLoaded, now, mountLoad,
                      startLoads, resume, session, failedInSession>>

Next ==
    \/ Tick
    \/ Start
    \/ StartResume
    \/ stopDetection
    \/ MountLoadDone
    \/ StartLoadDone
    \/ RafFire
    \/ NeuralDone
    \/ Render

Spec == Init /\ [][Next]_vars

TypeOK ==
    /\ isDetecting \in BOOLEAN /\ isModelLoading \in BOOLEAN /\ modelsLoaded \in BOOLEAN
    /\ detectedFaces \in ScanLists \cup NeuralLists
    /\ error \in {NoError, LoadAdvisory}
    /\ animationFrameRef \in {NoRef, StaleRef, RefF, RefT}
    /\ (animationFrameRef = RefF => loops.rafF > 0)
    /\ (animationFrameRef = RefT => loops.rafT > 0)
    /\ loops.rafF >= 0 /\ loops.rafT >= 0 /\ loops.neural >= 0
    /\ videoRef \in Videos \cup {NoVideo}
    /\ now \in 0..MaxTime
    /\ startLoads \in 0..MaxLoads /\ resume \in 0..MaxLoads
    /\ Load <= MaxLoops

\* The throttling scenario: a fresh hook under a simulated clock that starts
\* at 0, and one session.
InitSim == InitAt(0)

StartFresh == session = "idle" /\ Start

NextSim ==
    \/ Tick
    \/ StartFresh
    \/ StartResume
    \/ MountLoadDone
    \/ StartLoadDone
    \/ RafFire
    \/ NeuralDone
    \/ Render

SpecSim == InitSim /\ [][NextSim]_vars

\* The scanner on its own: fallbackDetection hands it a frame (line 149), the
\* loops visit the windows, the list is returned.
ScanBegin ==
    \E f \in Frames, m \in MaxFacesConfigs :
        /\ scan.pc = "done"
        /\ scan' = AtScale([ScanIdle EXCEPT !.width = f.width, !.height = f.height,
                                            !.max = m], 1)
        /\ UNCHANGED <<hookVars, ana, mapped>>

ScanWindow ==
    \E a \in Analyses :
        /\ scan.pc = "window"
        /\ scan' = [windowBody(scan, a) EXCEPT
                        !.firstPass = IF @ = NoWindow /\ a.isFaceCandidate /\ a.confident
                                      THEN [si |-> scan.si, x |-> scan.x, y |-> scan.y]
                                      ELSE @]
        /\ UNCHANGED <<hookVars, ana, mapped>>

NextScan ==
    \/ ScanBegin
    \/ ScanWindow

SpecScan == Init /\ [][NextScan]_vars

\* The analyzer on its own: it is called for a window (line 185) and returns.
Analyze ==
    /\ ana = NoAnalysis
    /\ \E w \in Windows :
           \E t \in {sampleRows(NoTally, w, 0)} :
               ana' = [w |-> w, t |-> t, a |-> analysis(t)]
    /\ UNCHANGED <<hookVars, scan, mapped>>

AnalyzeReturn ==
    /\ ana # NoAnalysis
    /\ ana' = NoAnalysis
    /\ UNCHANGED <<hookVars, scan, mapped>>

NextAnalyze ==
    \/ Analyze
    \/ AnalyzeReturn

SpecAnalyze == Init /\ [][NextAnalyze]_vars

\* The mapping on its own: the neural detector resolves with a list of
\* results (line 85) and the list of FaceDetection is made of it.
MapResults ==
    /\ mapped.calls = 0
    /\ \E r \in MapInputs :
           mapped' = [detections |-> r, faces |-> mapDetections(r), calls |-> 1]
    /\ UNCHANGED <<hookVars, scan, ana>>

MapReturn ==
    /\ mapped.calls > 0
    /\ mapped' = NoMapped
    /\ UNCHANGED <<hookVars, scan, ana>>

NextMap ==
    \/ MapResults
    \/ MapReturn

SpecMap == Init /\ [][NextMap]_vars

\* ---------------------------------------------------------------- claims

\* C1: after stop() has returned and until the next start(), no frame
\* iteration changes the visible detection list.
C1_NoPublishAfterStop ==
    [][(session = "stopped" /\ session' = "stopped") => detectedFaces' = detectedFaces]_vars

\* C2: after stop() and until the next start(), no iteration is scheduled:
\* at most the iteration that was in flight is left, and it schedules no other.
C2_NoIterationAfterStop == session = "stopped" => Pending(loops) = 0

\* C3: once the model load has completed successfully in a detecting session
\* (and the component has rendered with it), no iteration of the session is
\* scheduled to run on the fallback path: each one that begins invokes the
\* neural detector.
C3_NeuralAfterReady ==
    (session = "active" /\ modelsLoaded /\ rendered.ml /\ rendered.det) => loops.rafF = 0

\* C4: start() does not wait for the model load: while a session is active its
\* frame loop is alive (an iteration is scheduled or in progress), whether or
\* not a load is pending.
C4_StartDoesNotWait == (session = "active" /\ resume = 0) => Alive(loops) > 0

\* C5 as stated: start() on an active session changes no state: the loop keeps
\* its frame source and its scheduled iteration.
C5_AlreadyRunning ==
    [][ev'.op = "restart" =>
         /\ videoRef' = videoRef
         /\ loops' = loops
         /\ animationFrameRef' = animationFrameRef
         /\ isModelLoading' = isModelLoading]_vars

\* C5 amended: start() on an active session does not fail, it restarts
\* detection: the scheduled iteration animationFrameRef refers to is
\* cancelled, the frame source becomes the one passed to the call, isDetecting
\* stays true, the session stays active and lastError is cleared.
C5_Restarts ==
    [][ev'.op = "restart" =>
         /\ videoRef' = ev'.arg
         /\ isDetecting' /\ session' = "active"
         /\ error' = NoError
         /\ Pending(loops') = Pending(loops)
                - (IF animationFrameRef \in {RefF, RefT} THEN 1 ELSE 0)
                + (IF animationFrameRef' = NoRef THEN 0 ELSE 1)]_vars

C5_Witness ==
    /\ ev.op = "restart" /\ videoRef = ev.arg /\ isDetecting
    /\ animationFrameRef = NoRef /\ Pending(loops) = 0 /\ startLoads = 1

\* C6: at most one detection loop is alive at any time.
C6_SingleLoop == Alive(loops) <= 1

\* C7: every write of the visible list by a frame iteration comes more than
\* ThrottleMs after the previous such write.
C7_Throttled == ~earlyWrite

\* C8: when a fresh session produces results at 0, 30, 60, 90 and 130 ms,
\* exactly the first and the last become visible.
C8_Scenario == scen = ScenarioLen => scenVis = {1, 5}

\* C9: when the neural detector raises, the heuristic scanner handles the
\* frame (the list is left alone or becomes a heuristic list), modelsLoaded
\* stays true, lastError is untouched and the iteration scheduled next runs
\* the closure that invokes the neural detector.
C9_NeuralRaise ==
    [][ev'.op = "raise" =>
         /\ modelsLoaded /\ modelsLoaded'
         /\ error' = error
         /\ detectedFaces' \in {detectedFaces} \cup ScanLists
         /\ loops'.neural = loops.neural - 1
         /\ loops'.rafT = loops.rafT + 1
         /\ loops'.rafF = loops.rafF
         /\ animationFrameRef' = RefT]_vars

C9_Witness ==
    /\ ev.op = "raise" /\ modelsLoaded /\ detectedFaces = <<HeurFace>>
    /\ animationFrameRef = RefT /\ loops.rafT > 0

\* C10: when a model load fails while modelsLoaded is false, modelsLoaded
\* stays false, lastError becomes the advisory, the frame loop is left as it
\* was, and until the next start() no iteration uses the neural detector.
C10_LoadFailure ==
    /\ [][(ev'.op = "loadFailed" /\ ~modelsLoaded) =>
            /\ ~modelsLoaded'
            /\ error' = LoadAdvisory
            /\ loops' = loops /\ animationFrameRef' = animationFrameRef]_vars
    /\ [](failedInSession => (loops.neural = 0 /\ loops.rafT = 0))

C10_Witness ==
    /\ ev.op = "loadFailed" /\ failedInSession /\ ~modelsLoaded
    /\ error = LoadAdvisory /\ loops.rafF = 1

\* C11: no outcome of the processing of a frame ends the loop: while the
\* session stays active, a step other than a new start() leaves at least as
\* many loops alive (scheduled or awaiting the detector) as there were, so
\* every iteration that ran has scheduled its successor.
C11_LoopSurvives ==
    [][(session = "active" /\ session' = "active" /\ ev'.op # "restart")
          => Alive(loops') >= Alive(loops)]_vars

\* the neural detector raised, then the heuristic scanner threw, and the next
\* iteration is scheduled
C11_Witness ==
    /\ ev.op = "raise" /\ session = "active"
    /\ detectedFaces = <<>> /\ lastWriteAt = now /\ lastUpdateTime # now
    /\ animationFrameRef = RefT /\ loops.rafT = 1

\* C12: a model load that settles after stop() has returned is a no-op for
\* the stopped session: neither the settling (of the mount effect's load or
\* of one a startDetection awaits) nor the continuation it wakes publishes a
\* list or touches the frame loop, and isDetecting stays false.
C12_LateLoadNoOp ==
    [][(session = "stopped"
          /\ (mountLoad' # mountLoad \/ startLoads' < startLoads \/ resume' < resume))
          => /\ detectedFaces' = detectedFaces
             /\ loops' = loops
             /\ ~isDetecting']_vars

\* C13: right after stop() returns, whatever the state it was called in, the
\* detection list is empty and isDetecting is false.
C13_AfterStop ==
    ev.op \in {"stop", "stopAgain"} => (detectedFaces = <<>> /\ ~isDetecting)

\* stop() at the instant a list was published, with an iteration in flight
C13_Witness ==
    /\ ev.op = "stop" /\ lastUpdateTime = now /\ Alive(loops) > 0
    /\ detectedFaces = <<>> /\ ~isDetecting

\* C14: stop() is idempotent: a stop() directly after a stop() changes
\* nothing of the hook (list, isDetecting, model flags, lastError, the loops
\* and the references).
C14_StopIdempotent ==
    [][ev'.op = "stopAgain" =>
         UNCHANGED <<detectedFaces, isDetecting, isModelLoading, modelsLoaded, error,
                     loops, animationFrameRef, videoRef, lastUpdateTime>>]_vars

\* the second stop() of two, with a loop the first one did not reach still alive
C14_Witness ==
    /\ ev.op = "stopAgain" /\ ~isDetecting /\ detectedFaces = <<>>
    /\ animationFrameRef = StaleRef /\ Alive(loops) > 0

C16_ModelForward ==
    [][/\ modelsLoaded => modelsLoaded'
       /\ (loadSettled /\ ~isModelLoading /\ isModelLoading')
             => ev'.op \in {"start", "restart"}]_vars

\* a load fails after another one succeeded: the models stay loaded
C16_Witness ==
    /\ ev.op = "loadFailed" /\ modelsLoaded /\ ~isModelLoading /\ error = LoadAdvisory

\* C17: an iteration whose frame has zero width or height publishes nothing:
\* it changes neither the visible list nor the last-publish time, on the
\* fallback path and on the neural path alike.
C17_DegenerateSkipped ==
    [][ev'.op = "degenerate" =>
         (detectedFaces' = detectedFaces /\ lastUpdateTime' = lastUpdateTime)]_vars

\* C18: in the published list every detection of the heuristic path has
\* neither landmarks nor expressions, every detection of the neural path has
\* both, and all detections of the list come from the same path.
C18_PathFields ==
    \A i \in DOMAIN detectedFaces :
        LET d == detectedFaces[i]
        IN /\ d.path = "heuristic" => {"landmarks", "expressions"} \cap DOMAIN d = {}
           /\ d.path = "neural" => {"landmarks", "expressions"} \subseteq DOMAIN d
           /\ \A j \in DOMAIN detectedFaces : detectedFaces[j].path = d.path

\* a neural list of two detections replaces a heuristic list
C18_Witness ==
    /\ Len(detectedFaces) = 2 /\ detectedFaces[1].path = "neural"
    /\ lastUpdateTime = now /\ loops.rafF > 0

\* C19: in the published list any two distinct detections have centres at
\* least regionSize apart (compared on doubled coordinates, squared).
C19_CentersApart ==
    \A i, j \in DOMAIN detectedFaces :
        LET a == detectedFaces[i]
            b == detectedFaces[j]
            dx == (2 * a.x + a.width) - (2 * b.x + b.width)
            dy == (2 * a.y + a.height) - (2 * b.y + b.height)
        IN i # j => dx * dx + dy * dy >= (2 * regionSize) * (2 * regionSize)

\* C20: the scan never holds more than maxFaces detections, and once it holds
\* maxFaces no window is left to analyse: the scan has returned.
C20_MaxFaces ==
    /\ Len(scan.faces) <= scan.max
    /\ Len(scan.faces) >= scan.max => scan.pc = "done"

\* the first window of the largest frame is accepted: the scan returns having
\* analysed that window only
C20_Witness ==
    /\ scan.pc = "done" /\ scan.max = maxFaces
    /\ Len(scan.faces) = maxFaces /\ scan.analysed = 1
    /\ scan.width = 320 /\ scan.height = 240

\* w1 is met before w2 in scan order: scale by scale, then row-major
Before(w1, w2) ==
    \/ w1.si < w2.si
    \/ w1.si = w2.si /\ (w1.y < w2.y \/ (w1.y = w2.y /\ w1.x < w2.x))

\* the centres of the windows w1 and w2 are closer than the size of w2, the
\* later one (doubled coordinates, squared)
WindowsClose(w1, w2) ==
    LET dx == (2 * w1.x + scaledRegionSize(w1.si)) - (2 * w2.x + scaledRegionSize(w2.si))
        dy == (2 * w1.y + scaledRegionSize(w1.si)) - (2 * w2.y + scaledRegionSize(w2.si))
        size == scaledRegionSize(w2.si)
    IN dx * dx + dy * dy < (2 * size) * (2 * size)

C22_Candidate ==
    ana.t.totalPixels > 0 =>
        LET n == ana.t.totalPixels
            sum == ana.t.sumR + ana.t.sumG + ana.t.sumB
        IN /\ ana.a.isFaceCandidate <=>
                 /\ 10 * ana.t.skinPixels > 3 * n /\ 10 * ana.t.skinPixels < 8 * n
                 /\ sum > 180 * n /\ sum < 600 * n
                 /\ 10 * ana.t.edgePixels > n
                 /\ ana.t.skinPixels > 80
           /\ ana.w.img.skin = 0 => ~ana.a.isFaceCandidate

\* a candidate window
C22_Witness ==
    /\ ana.a.isFaceCandidate /\ ana.w.size = regionSize /\ ana.w.img.skin = 5

\* the other conditions of the acceptance: brightness strictly between 60 and
\* 200, edge ratio above 0.1, more than 80 skin samples, fewer than 80% skin
OtherConditions(t) ==
    LET n == t.totalPixels
        sum == t.sumR + t.sumG + t.sumB
    IN /\ n > 0
       /\ 10 * t.skinPixels < 8 * n
       /\ sum > 180 * n /\ sum < 600 * n
       /\ 10 * t.edgePixels > n
       /\ t.skinPixels > 80

\* C23 as stated: a window with at least 30% (exactly 30% included) and fewer
\* than 80% skin samples, whose other conditions hold, is a candidate with a
\* confidence of at most 0.95.
C23_FromThirty ==
    (OtherConditions(ana.t) /\ 10 * ana.t.skinPixels >= 3 * ana.t.totalPixels)
        => (ana.a.isFaceCandidate /\ ana.a.confidence <= 950)

\* C23, amended: a window with more than 30% and fewer than 80% skin samples,
\* whose other conditions hold, is a candidate with a confidence of at most
\* 0.95; a window at exactly 30% is not a candidate.
C23_AboveThirty ==
    /\ (OtherConditions(ana.t) /\ 10 * ana.t.skinPixels > 3 * ana.t.totalPixels)
           => (ana.a.isFaceCandidate /\ ana.a.confidence <= 950)
    /\ (ana.t.totalPixels > 0 /\ 10 * ana.t.skinPixels = 3 * ana.t.totalPixels)
           => ~ana.a.isFaceCandidate

\* a window at 40% skin samples whose other conditions hold
C23_Witness ==
    /\ OtherConditions(ana.t)
    /\ 10 * ana.t.skinPixels = 4 * ana.t.totalPixels
    /\ ana.a.isFaceCandidate

\* a frame that is R = G = B = 130 everywhere
UniformGray(img) == img.skin = 0 /\ img.bg = Gray /\ img.odd = Gray
InFrame(w) == w.startX < w.width /\ w.startY < w.height

\* C24 as stated: in a uniformly gray (130) frame a window has brightness 130
\* and skin ratio 0, is not a candidate, and its emotion is neutral with a
\* confidence of 0.695.
C24_Gray695 ==
    (UniformGray(ana.w.img) /\ InFrame(ana.w)) =>
        /\ ana.t.sumR + ana.t.sumG + ana.t.sumB = 390 * ana.t.totalPixels
        /\ ana.t.skinPixels = 0
        /\ ~ana.a.isFaceCandidate
        /\ ana.a.emotion = "neutral"
        /\ ana.a.emotionConfidence = 695

\* C24, amended: the same, with the confidence 0.5 + min(0.3, 130 / 200) = 0.8.
C24_Gray800 ==
    (UniformGray(ana.w.img) /\ InFrame(ana.w)) =>
        /\ ana.t.totalPixels > 0
        /\ ana.t.sumR + ana.t.sumG + ana.t.sumB = 390 * ana.t.totalPixels
        /\ ana.t.skinPixels = 0
        /\ ~ana.a.isFaceCandidate
        /\ ana.a.emotion = "neutral"
        /\ ana.a.emotionConfidence = 800

\* a whole window of the uniformly gray camera frame has been analysed
C24_Witness ==
    /\ UniformGray(ana.w.img) /\ ana.w.width = FrameWidth
    /\ ana.w.size = regionSize /\ ana.t.totalPixels > 0

\* C25: whenever a frame iteration is scheduled or in progress, isDetecting
\* is true.
C25_LoopImpliesDetecting == Alive(loops) > 0 => isDetecting

\* the model loads in flight: the mount effect's and those startDetection awaits
LoadsInFlight == (IF mountLoad THEN 1 ELSE 0) + startLoads

\* C26: at most one model load is in flight at any time, and no load is
\* started after one has succeeded.
C26_SingleLoad ==
    [][/\ LoadsInFlight' <= 1
       /\ modelsLoaded => LoadsInFlight' <= LoadsInFlight]_vars

\* C27: every box scan() returns is the accepted window grown by 20 px to the
\* left, top and right and by 30 px at the bottom, clipped to the frame; the
\* box contains the window.
C27_GrownClipped ==
    \A i \in DOMAIN scan.faces :
        LET w == scan.taken[i]
            size == scaledRegionSize(w.si)
            f == scan.faces[i]
        IN /\ f.x = Max(0, w.x - 20)
           /\ f.y = Max(0, w.y - 20)
           /\ f.x + f.width = Min(scan.width, w.x + size + 20)
           /\ f.y + f.height = Min(scan.height, w.y + size + 30)
           /\ f.x <= w.x /\ w.x + size <= f.x + f.width
           /\ f.y <= w.y /\ w.y + size <= f.y + f.height

\* the offsets dx, dy of the sampling loops of a window
Offsets(w) == {d \in 0..(w.size - 1) : d % 2 = 0}

\* the number of samples of w, off the first sampled row and column, whose R
\* differs by more than 30 from the R of the pixel k up and k to the left
EdgeCount(w, k) ==
    Cardinality({o \in Offsets(w) \X Offsets(w) :
        /\ o[1] > 0 /\ o[2] > 0
        /\ w.startX + o[1] < w.width /\ w.startY + o[2] < w.height
        /\ Abs(px(w.img, w.startX + o[1], w.startY + o[2]).r
               - px(w.img, w.startX + o[1] - k, w.startY + o[2] - k).r) > 30})

\* C28 as stated: the edge pixels are the samples, off the first sampled row
\* and column, whose R differs by more than 30 from the R of the sample one
\* sampling stride (2 px) up and to the left.
C28_PreviousSample == ana.t.edgePixels = EdgeCount(ana.w, 2)

\* C28, amended: the edge pixels are the samples, off the first sampled row
\* and column, whose R differs by more than 30 from the R of the frame's pixel
\* one up and one to the left, which is not a sample.
C28_AdjacentPixel == ana.t.edgePixels = EdgeCount(ana.w, 1)

\* a window with edge pixels where the two readings differ
C28_Witness ==
    /\ ana.t.edgePixels > 0
    /\ ana.t.edgePixels = EdgeCount(ana.w, 1)
    /\ EdgeCount(ana.w, 1) # EdgeCount(ana.w, 2)

\* the windows of the frame being scanned: at each scale, the positions that
\* are multiples of the scaled step and leave more than the scaled size
GridWindows ==
    UNION {{[si |-> si, x |-> i * scaledStep(si), y |-> j * scaledStep(si)] :
               i \in {k \in 0..(scan.width \div scaledStep(si)) :
                          k * scaledStep(si) < scan.width - scaledRegionSize(si)},
               j \in {k \in 0..(scan.height \div scaledStep(si)) :
                          k * scaledStep(si) < scan.height - scaledRegionSize(si)}} :
           si \in DOMAIN scales10}

\* w2 is the window that follows w1 in scan order (w1 may be NoWindow, which
\* is before every window)
FollowsInOrder(w1, w2) ==
    /\ w2 \in GridWindows
    /\ Before(w1, w2)
    /\ \A g \in GridWindows : ~(Before(w1, g) /\ Before(g, w2))

\* C29: with the maximum of the code, the scan visits the windows scale by
\* scale (1.0, 0.8, 1.2) and row-major within a scale, each window next after
\* the one before, until a window passes isCandidate and confidence > 0.6;
\* that first passing window is the one detection returned, and the result is
\* empty exactly when every window was visited and none passed.
C29_FirstPassing ==
    [][(scan.max = maxFaces /\ scan'.width = scan.width /\ scan'.height = scan.height
          /\ scan.pc = "window") =>
         LET here == [si |-> scan.si, x |-> scan.x, y |-> scan.y]
             next == [si |-> scan'.si, x |-> scan'.x, y |-> scan'.y]
         IN /\ here \in GridWindows
            /\ scan.firstPass = NoWindow /\ scan.faces = <<>>
            /\ (scan.analysed = 0 => FollowsInOrder(NoWindow, here))
            /\ IF scan'.firstPass = NoWindow
               THEN /\ scan'.faces = <<>>
                    /\ IF scan'.pc = "window"
                       THEN FollowsInOrder(here, next)
                       ELSE \A g \in GridWindows : ~Before(here, g)
               ELSE /\ scan'.firstPass = here
                    /\ scan'.taken = <<here>>
                    /\ Len(scan'.faces) = 1
                    /\ scan'.pc = "done"]_vars

\* a scan that returned the detection of a window at the second scale, the
\* first that passed
C29_Witness ==
    /\ scan.pc = "done" /\ scan.max = maxFaces
    /\ scan.firstPass.si = 2 /\ scan.firstPass.x > 0 /\ scan.firstPass.y > 0
    /\ scan.taken = <<scan.firstPass>> /\ Len(scan.faces) = 1

\* C30: the list made of the neural detector's results has one detection per
\* result, in the same order; each detection has the box and the score of its
\* result, and its emotion is a label with the highest score of the result's
\* expressions, its emotionConfidence that score.
C30_DominantEmotion ==
    /\ Len(mapped.faces) = Len(mapped.detections)
    /\ \A i \in DOMAIN mapped.detections :
           LET d == mapped.detections[i]
               f == mapped.faces[i]
           IN /\ f.x = d.box.x /\ f.y = d.box.y
              /\ f.width = d.box.width /\ f.height = d.box.height
              /\ f.confidence = d.score
              /\ \E k \in DOMAIN Labels :
                     /\ f.emotion = Labels[k]
                     /\ f.emotionConfidence = d.expressions[k]
                     /\ \A j \in DOMAIN Labels : d.expressions[j] <= d.expressions[k]

\* two results mapped in order, the second with its highest score at the
\* last label and a lower one at the first
C30_Witness ==
    /\ Len(mapped.faces) = 2
    /\ mapped.faces[1].x = RawFaceNear.box.x /\ mapped.faces[2].x = RawFace.box.x
    /\ mapped.detections[2].expressions[1] = 100
    /\ mapped.faces[2].emotion = "surprised" /\ mapped.faces[2].emotionConfidence = 900

\* C31: a frame iteration (a step that runs detectFaces or resumes it, and so
\* changes the loops) never changes lastError.
C31_IterationKeepsError ==
    [][(ev'.op \in {"other", "degenerate", "raise"} /\ loops' # loops)
          => error' = error]_vars

\* the conditions of the emotion estimate on the means of the window's
\* samples (cross-multiplied by the number of samples)
IsHappy(t) ==
    /\ t.sumR + t.sumG + t.sumB > 390 * t.totalPixels
    /\ 10 * (t.sumR - t.sumB) > 255 * t.totalPixels
IsFocused(t) ==
    /\ t.sumR + t.sumG + t.sumB < 270 * t.totalPixels
    /\ 100 * t.edgePixels > 15 * t.totalPixels
IsSurprised(t) ==
    /\ 10 * (Max(t.sumR, Max(t.sumG, t.sumB)) - Min(t.sumR, Min(t.sumG, t.sumB)))
           > 765 * t.totalPixels
    /\ t.sumR + t.sumG + t.sumB > 300 * t.totalPixels

\* C32: the emotion is happy if brightness > 130 and warmth > 0.1, else
\* focused if brightness < 90 and edgeRatio > 0.15, else surprised if
\* saturation > 0.3 and brightness > 100, else neutral; the label is always
\* one of the four and emotionConfidence lies in [0, 1].
C32_EmotionPriority ==
    /\ ana.a.emotion \in {"happy", "focused", "surprised", "neutral"}
    /\ ana.a.emotionConfidence >= 0 /\ ana.a.emotionConfidence <= 1000
    /\ ana.t.totalPixels > 0 =>
           ana.a.emotion = IF IsHappy(ana.t) THEN "happy"
                           ELSE IF IsFocused(ana.t) THEN "focused"
                           ELSE IF IsSurprised(ana.t) THEN "surprised"
                           ELSE "neutral"

\* a window that meets the conditions of happy and of surprised is happy
C32_Witness ==
    /\ ana.t.totalPixels > 0 /\ IsHappy(ana.t) /\ IsSurprised(ana.t)
    /\ ana.a.emotion = "happy"

\* 1200 n times the weighted sum 0.4 skinRatio + 0.3 min(brightness / 120, 1)
\* + 0.3 edgeRatio of a tally of n samples
Weighted(t) ==
    120 * (4 * t.skinPixels + 3 * t.edgePixels)
        + Min(t.sumR + t.sumG + t.sumB, 360 * t.totalPixels)

\* C33: the confidence is min(0.95, 0.4 skinRatio + 0.3 min(brightness / 120,
\* 1) + 0.3 edgeRatio) (in thousandths, rounded down), and lies in [0, 0.95]
\* for every window.
C33_Confidence ==
    /\ ana.a.confidence >= 0 /\ ana.a.confidence <= 950
    /\ ana.t.totalPixels > 0 =>
           IF 20 * Weighted(ana.t) >= 19 * 1200 * ana.t.totalPixels
           THEN ana.a.confidence = 950
           ELSE /\ 6 * ana.t.totalPixels * ana.a.confidence <= 5 * Weighted(ana.t)
                /\ 5 * Weighted(ana.t) < 6 * ana.t.totalPixels * (ana.a.confidence + 1)

\* a window whose weighted sum is 0.96 or more
C33_Witness ==
    /\ ana.t.totalPixels > 0
    /\ 25 * Weighted(ana.t) >= 24 * 1200 * ana.t.totalPixels
    /\ ana.a.confidence = 950

\* C34: every detection the scan returns has a positive width and height and
\* lies inside the frame.
C34_InsideFrame ==
    \A i \in DOMAIN scan.faces :
        LET f == scan.faces[i]
        IN /\ f.width > 0 /\ f.height > 0
           /\ f.x >= 0 /\ f.y >= 0
           /\ f.x + f.width <= scan.width
           /\ f.y + f.height <= scan.height

\* a returned box that the clamp has cut on both axes
C34_Witness ==
    /\ scan.pc = "done" /\ Len(scan.faces) = 1
    /\ scan.faces[1].width < scaledRegionSize(scan.taken[1].si) + 40
    /\ scan.faces[1].height < scaledRegionSize(scan.taken[1].si) + 50
    /\ scan.faces[1].x > 0 /\ scan.faces[1].y > 0

\* C35: every read of analyzeRegionAdvanced, of a sample and of the pixel of
\* its edge test, uses an index inside the frame's buffer.
C35_ReadsInBuffer == ~ana.t.outside

\* the last window of the scan of a camera frame, at scale 1.2, has been
\* analysed, edge tests included
C35_Witness ==
    /\ ana.w.width = FrameWidth /\ ana.w.height = FrameHeight
    /\ ana.w.startX = 480 /\ ana.w.startY = 288 /\ ana.w.size = 144
    /\ ana.t.totalPixels = 72 * 72 /\ ana.t.edgePixels > 0
    /\ ~ana.t.outside

\* the three rules for a colour c, with the thresholds of the specification
RuleRGB(c) ==
    c.r > 95 /\ c.g > 40 /\ c.b > 20 /\ c.r > c.g /\ c.r > c.b
        /\ (c.r - c.g > 15 \/ c.g - c.r > 15)
RuleYCbCr(c) == c.r > 80 /\ c.g > 50 /\ c.b > 30 /\ c.r >= c.g /\ c.g >= c.b
RuleHSV(c) ==
    c.r > 60 /\ c.g > 40 /\ c.b > 25
        /\ (IF c.g < c.b THEN c.r - c.g ELSE c.r - c.b) > 15
RulesHeld(c) == Cardinality({rule \in {"rgb", "ycbcr", "hsv"} :
                                \/ rule = "rgb" /\ RuleRGB(c)
                                \/ rule = "ycbcr" /\ RuleYCbCr(c)
                                \/ rule = "hsv" /\ RuleHSV(c)})

\* C36: a sampled pixel counts as skin exactly when at least two of the three
\* rules hold for it (seen on windows of a single sample).
C36_SkinRule ==
    ana.t.totalPixels = 1 =>
        (ana.t.skinPixels = 1 <=> RulesHeld(px(ana.w.img, ana.w.startX, ana.w.startY)) >= 2)

\* a pixel for which exactly two of the rules hold is skin
C36_Witness ==
    /\ ana.t.totalPixels = 1 /\ ana.t.skinPixels = 1
    /\ RulesHeld(px(ana.w.img, ana.w.startX, ana.w.startY)) = 2

\* C37: for a window without a sample inside the frame, analyzeRegionAdvanced
\* returns isFaceCandidate false, confidence 0 and neutral, and does not
\* divide by the number of samples.
C37_NoSamples ==
    (ana # NoAnalysis /\ ana.t.totalPixels = 0) =>
        /\ ~ana.a.isFaceCandidate
        /\ ana.a.confidence = 0
        /\ ana.a.emotion = "neutral" /\ ana.a.emotionConfidence = 0
        /\ ~ana.a.divided

\* a window that starts at the right edge of the frame has been analysed
C37_Witness ==
    /\ ana.w.size > 0 /\ ana.w.startX >= ana.w.width
    /\ ana.t.totalPixels = 0 /\ ~ana.a.isFaceCandidate /\ ~ana.a.divided

====
